---- MODULE Spec2Model ----
(***************************************************************************)
(* The execution core of evmone (lib/evmone/execution.cpp and              *)
(* lib/evmone/instructions.cpp): the dispatch loop of execute(), the       *)
(* instruction handlers, and the block-based gas/stack accounting.         *)
(*                                                                         *)
(* Machine widths are scaled so that TLC's integers can hold them: a       *)
(* 32-bit field has UINT32_MOD values instead of 2^32, int is as wide as   *)
(* a 32-bit field, and a stack word has WORD_MOD values instead of 2^256.  *)
(* Sequences are 1-based: instr = k is the C++ pointer &instrs[k - 1].     *)
(***************************************************************************)
EXTENDS Integers, Sequences, FiniteSets, TLC

(***************************************************************************)
(* Bounds of the model.                                                    *)
(***************************************************************************)
\* Number of values of a 32-bit unsigned field (2^32 in the build).
UINT32_MOD == 176

\* Largest gas limit of the enumerated messages.
MaxGas == 30

\* Extra gas given to the stack-filling loop beyond what 1023 iterations cost.
LoopSlack == 16

\* Largest number of PUSH1 instructions in front of the instruction under test.
MaxPushes == 2

\* The per-instruction meter is followed down to -MaxDebt.
MaxDebt == 64

\* The operands of the 384-bit kernels when they are compared with integer
\* arithmetic: NumLimbs limbs of base LimbBase.
NumLimbs == 2
LimbBase == 3

(***************************************************************************)
(* Program constants.                                                      *)
(***************************************************************************)
\* evm_stack::limit, the capacity of the value stack.
limit == 1024

\* The halt sentinel returned by a handler (a null instruction pointer).
nullptr == 0

\* std::numeric_limits<int>::max(), at the scaled width.
INT_MAX == (UINT32_MOD \div 2) - 1

\* Number of values of a stack word: four 32-bit fields and one bit above.
WORD_MOD == 2 * UINT32_MOD * UINT32_MOD * UINT32_MOD * UINT32_MOD

\* The largest offset or size check_memory accepts (uint32 max).
max_buffer_size == UINT32_MOD - 1

EVMC_SUCCESS == "EVMC_SUCCESS"
EVMC_FAILURE == "EVMC_FAILURE"
EVMC_REVERT == "EVMC_REVERT"
EVMC_OUT_OF_GAS == "EVMC_OUT_OF_GAS"
EVMC_INVALID_INSTRUCTION == "EVMC_INVALID_INSTRUCTION"
EVMC_UNDEFINED_INSTRUCTION == "EVMC_UNDEFINED_INSTRUCTION"
EVMC_STACK_OVERFLOW == "EVMC_STACK_OVERFLOW"
EVMC_STACK_UNDERFLOW == "EVMC_STACK_UNDERFLOW"
EVMC_BAD_JUMP_DESTINATION == "EVMC_BAD_JUMP_DESTINATION"
EVMC_STATIC_MODE_VIOLATION == "EVMC_STATIC_MODE_VIOLATION"

Max(a, b) == IF a >= b THEN a ELSE b

RECURSIVE Pow(_, _)
Pow(b, k) == IF k = 0 THEN 1 ELSE b * Pow(b, k - 1)

(***************************************************************************)
(* The cost schedule and the stack traits of the opcodes of the model      *)
(* (instr::gas_costs, instr::traits).  "UNDEFINED" stands for an opcode    *)
(* byte without an entry in the revision's schedule.  The costs of the     *)
(* expensive opcodes are scaled down; the cheap ones keep their value.     *)
(***************************************************************************)
undefined == -1

gas_costs(op) ==
    CASE op = "STOP" -> 0
      [] op = "POP" -> 2
      [] op = "DUP1" -> 3
      [] op = "MSIZE" -> 2
      [] op = "MSTORE8" -> 3
      [] op = "JUMP" -> 8
      [] op = "JUMPI" -> 10
      [] op = "JUMPDEST" -> 1
      [] op = "PC" -> 2
      [] op = "GAS" -> 2
      [] op = "SSTORE" -> 0
      [] op = "LOG0" -> 4
      [] op = "CALL" -> 5
      [] op = "CREATE" -> 6
      [] op = "RETURN" -> 0
      [] op = "REVERT" -> 0
      [] op = "INVALID" -> 0
      [] op = "SELFDESTRUCT" -> 4
      [] op = "PUSH1" -> 3
      [] op = "PUSH16" -> 3
      [] op = "ADDMOD384" -> 2
      [] op = "SUBMOD384" -> 2
      [] op = "MULMODMONT384" -> 3
      [] OTHER -> undefined

stack_height_required(op) ==
    CASE op \in {"POP", "DUP1", "JUMP", "SELFDESTRUCT",
                 "ADDMOD384", "SUBMOD384", "MULMODMONT384"} -> 1
      [] op \in {"MSTORE8", "JUMPI", "SSTORE", "LOG0", "RETURN", "REVERT"} -> 2
      [] op = "CREATE" -> 3
      [] op = "CALL" -> 7
      [] OTHER -> 0

stack_height_change(op) ==
    CASE op \in {"POP", "JUMP", "SELFDESTRUCT",
                 "ADDMOD384", "SUBMOD384", "MULMODMONT384"} -> -1
      [] op \in {"MSTORE8", "JUMPI", "SSTORE", "LOG0", "RETURN", "REVERT", "CREATE"} -> -2
      [] op = "CALL" -> -6
      [] op \in {"DUP1", "MSIZE", "PC", "GAS", "PUSH1", "PUSH16"} -> 1
      [] OTHER -> 0

\* The opcodes of the model; "UNDEFINED" stands for every byte the model
\* gives no name.
Opcodes == {"STOP", "POP", "DUP1", "MSIZE", "MSTORE8", "JUMP", "JUMPI", "JUMPDEST",
            "PC", "GAS", "SSTORE", "LOG0", "RETURN", "REVERT", "INVALID", "UNDEFINED",
            "SELFDESTRUCT", "PUSH1", "PUSH16", "CALL", "CREATE",
            "ADDMOD384", "SUBMOD384", "MULMODMONT384"}

\* An entry of instruction_implementations the initializer does not set.
no_fn == "nullptr"

\* instruction_implementations: the handler of each opcode (OPX_BEGINBLOCK
\* takes the place of JUMPDEST).  The initializer sets no entry for the three
\* 384-bit opcodes.
instruction_implementations(op) ==
    CASE op \in {"POP", "DUP1"} -> "op_stack"
      [] op = "MSIZE" -> "op_state"
      [] op = "MSTORE8" -> "op_status"
      [] op = "STOP" -> "op_stop"
      [] op = "SSTORE" -> "op_sstore"
      [] op = "JUMP" -> "op_jump"
      [] op = "JUMPI" -> "op_jumpi"
      [] op = "JUMPDEST" -> "opx_beginblock"
      [] op = "PC" -> "op_pc"
      [] op = "GAS" -> "op_gas"
      [] op = "PUSH1" -> "op_push_small"
      [] op = "PUSH16" -> "op_push_full"
      [] op = "LOG0" -> "op_log"
      [] op = "INVALID" -> "op_invalid"
      [] op \in {"RETURN", "REVERT"} -> "op_return"
      [] op = "CALL" -> "op_call"
      [] op = "CREATE" -> "op_create"
      [] op = "SELFDESTRUCT" -> "op_selfdestruct"
      [] OTHER -> no_fn

\* One iteration of the loop of create_op_table<Rev>: the entry of opcode op
\* when the schedule of the revision gives it gas_cost.
op_table_entry(gas_cost, op) ==
    IF gas_cost = undefined
    THEN [fn |-> "op_undefined", gas_cost |-> 0, stack_req |-> 0, stack_change |-> 0]
    ELSE [fn |-> instruction_implementations(op),
          gas_cost |-> gas_cost,
          stack_req |-> stack_height_required(op),
          stack_change |-> stack_height_change(op)]

\* create_op_table<Rev>, for the schedule of the revision (a function of the opcode).
create_op_table(schedule) == [op \in Opcodes |-> op_table_entry(schedule[op], op)]

\* The revisions, and the number of tables of op_tables.
EVMC_MAX_REVISION == 8
op_tables_size == 9

\* The handler an instruction of the stream refers to: the handler of the
\* opcode's table entry, and for the 384-bit opcodes the handler defined for them.
handler(op) ==
    CASE op = "ADDMOD384" /\ gas_costs(op) # undefined -> "op_addmod384"
      [] op = "SUBMOD384" /\ gas_costs(op) # undefined -> "op_submod384"
      [] op = "MULMODMONT384" /\ gas_costs(op) # undefined -> "op_mulmodmont384"
      [] OTHER -> op_table_entry(gas_costs(op), op).fn

(***************************************************************************)
(* The analysis: code -> instruction stream + jump-destination table.      *)
(* A code is a sequence of items [op, imm]; PUSH1 occupies 2 bytes and     *)
(* PUSH16 17 bytes of the program, every other opcode 1 byte.              *)
(***************************************************************************)
Item(op) == [op |-> op, imm |-> 0]
Push1(v) == [op |-> "PUSH1", imm |-> v]
Push16(v) == [op |-> "PUSH16", imm |-> v]

item_size(it) ==
    CASE it.op = "PUSH1" -> 2
      [] it.op = "PUSH16" -> 17
      [] OTHER -> 1

NoBlock == [gas_cost |-> 0, stack_req |-> 0, stack_max_growth |-> 0]

\* An instruction: its handler, the opcode it was decoded from, arg.number
\* (also arg.small_push_value / *arg.push_value) and arg.block.
Instruction(fn, op, number) ==
    [fn |-> fn, op |-> op, number |-> number, block |-> NoBlock]

BeginBlock == Instruction("opx_beginblock", "BEGINBLOCK", 0)

block_analysis(begin_block_index) ==
    [begin_block_index |-> begin_block_index, gas_cost |-> 0,
     stack_req |-> 0, stack_max_growth |-> 0, stack_change |-> 0]

close(block) ==
    [gas_cost |-> block.gas_cost, stack_req |-> block.stack_req,
     stack_max_growth |-> block.stack_max_growth]

is_terminator(op) ==
    op \in {"JUMP", "JUMPI", "STOP", "RETURN", "REVERT", "SELFDESTRUCT"}

has_gas_arg(op) == op \in {"GAS", "SSTORE", "CALL", "CREATE"}

\* One iteration of the analysis loop, for item i of the code at byte pos.
analyze_item(code, i, pos, a) ==
    LET it == code[i]
        op == it.op
        b0 == a.block
        req == IF gas_costs(op) = undefined THEN 0 ELSE stack_height_required(op)
        chg == IF gas_costs(op) = undefined THEN 0 ELSE stack_height_change(op)
        cost == IF gas_costs(op) = undefined THEN 0 ELSE gas_costs(op)
        b1 == [b0 EXCEPT !.stack_req = Max(b0.stack_req, req - b0.stack_change),
                         !.stack_change = b0.stack_change + chg,
                         !.stack_max_growth =
                             Max(b0.stack_max_growth, b0.stack_change + chg),
                         !.gas_cost = b0.gas_cost + cost]
        number == CASE op \in {"PUSH1", "PUSH16"} -> it.imm
                    [] has_gas_arg(op) -> b1.gas_cost
                    [] op = "PC" -> pos
                    [] OTHER -> 0
        instrs1 == IF op = "JUMPDEST"
                   THEN [a.instrs EXCEPT ![Len(a.instrs)].op = "JUMPDEST"]
                   ELSE Append(a.instrs, Instruction(handler(op), op, number))
        jumpdests1 == IF op = "JUMPDEST"
                      THEN a.jumpdests \cup {<<pos, Len(a.instrs) - 1>>}
                      ELSE a.jumpdests
        split == is_terminator(op)
                    \/ (i < Len(code) /\ code[i + 1].op = "JUMPDEST")
        instrs2 == IF split
                   THEN Append([instrs1 EXCEPT ![b1.begin_block_index].block = close(b1)],
                               BeginBlock)
                   ELSE instrs1
    IN  [instrs |-> instrs2, jumpdests |-> jumpdests1,
         block |-> IF split THEN block_analysis(Len(instrs2)) ELSE b1]

RECURSIVE analyze_loop(_, _, _, _)
analyze_loop(code, i, pos, a) ==
    IF i > Len(code) THEN a
    ELSE analyze_loop(code, i + 1, pos + item_size(code[i]),
                      analyze_item(code, i, pos, a))

analyze(code) ==
    LET a == analyze_loop(code, 1, 0,
                 [instrs |-> <<BeginBlock>>, jumpdests |-> {},
                  block |-> block_analysis(1)])
        closed == [a.instrs EXCEPT ![a.block.begin_block_index].block = close(a.block)]
    IN  [instrs |-> Append(closed, Instruction("op_stop", "STOP", 0)),
         jumpdests |-> a.jumpdests]

\* The instruction index of the JUMPDEST at byte offset, or -1.
find_jumpdest(analysis, offset) ==
    IF \E jd \in analysis.jumpdests : jd[1] = offset
    THEN (CHOOSE jd \in analysis.jumpdests : jd[1] = offset)[2]
    ELSE -1

(***************************************************************************)
(* evm_stack: top is the number of items (top_item - (storage - 1) in the  *)
(* build, so it can leave 0..limit when a handler pops an empty stack or   *)
(* pushes onto a full one); items holds the live items, the top last.      *)
(***************************************************************************)
Words == 0 .. (WORD_MOD - 1)

\* What a read outside the live items may return.
Garbage == {0, 1}

EmptyStack == [top |-> 0, items |-> <<>>]

size(s) == s.top

\* The possible values of stack[i], i = 0 being the top item.
item(s, i) ==
    IF s.top - i >= 1 /\ s.top - i <= Len(s.items)
    THEN {s.items[s.top - i]}
    ELSE Garbage

pop(s) ==
    [top |-> s.top - 1,
     items |-> IF s.top >= 1 THEN SubSeq(s.items, 1, s.top - 1) ELSE s.items]

push(s, v) ==
    [top |-> s.top + 1,
     items |-> IF s.top >= 0 THEN Append(s.items, v) ELSE s.items]

RECURSIVE popn(_, _)
popn(s, n) == IF n = 0 THEN s ELSE popn(pop(s), n - 1)

(***************************************************************************)
(* Memory: a sequence of bytes; check_memory grows it to whole 32-byte     *)
(* words and charges the expansion, debiting gas_left before testing it.   *)
(***************************************************************************)
Zeros(n) == [i \in 1 .. n |-> 0]

num_words(n) == (n + 31) \div 32

memory_cost(words) == 3 * words + (words * words) \div 512

\* check_memory(state, offset, uint64_t size)
check_memory(gl, mem, offset, sz) ==
    IF offset > max_buffer_size
    THEN [ok |-> FALSE, gas_left |-> gl, memory |-> mem]
    ELSE LET new_size == offset + sz
             new_words == num_words(new_size)
             current_words == Len(mem) \div 32
             cost == memory_cost(new_words) - memory_cost(current_words)
         IN  IF new_size <= Len(mem)
             THEN [ok |-> TRUE, gas_left |-> gl, memory |-> mem]
             ELSE IF gl - cost < 0
             THEN [ok |-> FALSE, gas_left |-> gl - cost, memory |-> mem]
             ELSE [ok |-> TRUE, gas_left |-> gl - cost,
                   memory |-> mem \o Zeros(new_words * 32 - Len(mem))]

\* check_memory(state, offset, const uint256& size)
check_memory_range(gl, mem, offset, sz) ==
    IF sz = 0 THEN [ok |-> TRUE, gas_left |-> gl, memory |-> mem]
    ELSE IF sz > max_buffer_size THEN [ok |-> FALSE, gas_left |-> gl, memory |-> mem]
    ELSE check_memory(gl, mem, offset, sz)

(***************************************************************************)
(* The operations behind the dynamic-cost handlers.  Each returns the set  *)
(* of outcomes the host and the cost rules allow: a status, gas_left after *)
(* the operation's own debit, the stack, and the cost it charged.          *)
(***************************************************************************)
\* Scaled dynamic costs (net of any gas a nested call returns).
DynCosts == {1, 4}

Charged(gl, stk, costs, failures) ==
    {[status |-> IF gl - c < 0 THEN EVMC_OUT_OF_GAS ELSE EVMC_SUCCESS,
      gas_left |-> gl - c, stack |-> stk, cost |-> c] : c \in costs}
    \cup {[status |-> f, gas_left |-> gl, stack |-> stk, cost |-> 0] : f \in failures}

sstore(gl, stk) ==
    Charged(gl, popn(stk, 2), DynCosts, {EVMC_STATIC_MODE_VIOLATION})

call(gl, stk) ==
    UNION {Charged(gl, push(popn(stk, 7), r), DynCosts, {EVMC_STATIC_MODE_VIOLATION})
             : r \in {0, 1}}

create(gl, stk) ==
    UNION {Charged(gl, push(popn(stk, 3), r), DynCosts, {EVMC_STATIC_MODE_VIOLATION})
             : r \in {0, 1}}

selfdestruct(gl, stk) ==
    Charged(gl, pop(stk), {0}, {EVMC_STATIC_MODE_VIOLATION})

(***************************************************************************)
(* The instruction functions behind the generic op<> wrappers.             *)
(***************************************************************************)
\* void InstrFn(evm_stack&): pop, dup<OP_DUP1>
stack_fn(op, stk) ==
    IF op = "POP" THEN {pop(stk)}
    ELSE {push(stk, v) : v \in item(stk, 0)}

\* void InstrFn(ExecutionState&): msize
state_fn(op, stk, mem) == push(stk, Len(mem) % WORD_MOD)

byte_at(mem, o) == IF o < Len(mem) THEN mem[o + 1] ELSE 0

read_bytes(mem, off, n) == SubSeq([i \in 1 .. n |-> byte_at(mem, off + i - 1)], 1, n)

write_bytes(mem, off, bytes) ==
    [i \in 1 .. Len(mem) |->
        IF i - 1 >= off /\ i - 1 < off + Len(bytes) THEN bytes[i - off] ELSE mem[i]]

\* evmc_status_code InstrFn(ExecutionState&): mstore8
mstore8(gl, stk, mem) ==
    {LET cm == check_memory(gl, mem, index, 1)
     IN  IF ~cm.ok
         THEN [status |-> EVMC_OUT_OF_GAS, gas_left |-> cm.gas_left,
               stack |-> stk, memory |-> mem]
         ELSE [status |-> EVMC_SUCCESS, gas_left |-> cm.gas_left,
               stack |-> popn(stk, 2),
               memory |-> write_bytes(cm.memory, index, <<value % 256>>)]
       : index \in item(stk, 0), value \in item(stk, 1)}

\* log(state, num_topics) for num_topics = 0
log(gl, stk, mem) ==
    {LET cm == check_memory_range(gl, mem, offset, sz)
         cost == 8 * sz
     IN  IF ~cm.ok
         THEN [status |-> EVMC_OUT_OF_GAS, gas_left |-> cm.gas_left,
               stack |-> stk, memory |-> mem, cost |-> gl - cm.gas_left]
         ELSE [status |-> IF cm.gas_left - cost < 0 THEN EVMC_OUT_OF_GAS ELSE EVMC_SUCCESS,
               gas_left |-> cm.gas_left - cost, stack |-> popn(stk, 2),
               memory |-> cm.memory, cost |-> gl - cm.gas_left + cost]
       : offset \in item(stk, 0), sz \in item(stk, 1)}
    \cup {[status |-> EVMC_STATIC_MODE_VIOLATION, gas_left |-> gl, stack |-> stk,
           memory |-> mem, cost |-> 0]}

(***************************************************************************)
(* The 384-bit kernel (bigint.h): numbers are little-endian limb           *)
(* sequences.  In memory a number is 48 bytes; the model takes each byte   *)
(* as a limb (48 limbs of 8 bits), which gives the same 48 bytes as 6      *)
(* limbs of 64 bits for addition, subtraction and comparison.              *)
(***************************************************************************)
Limb(x, i) == IF i <= Len(x) THEN x[i] ELSE 0

\* The element of a one-element set.  The({e(v) : v \in {d}}) is e at the
\* value of d, with d computed once.
The(S) == CHOOSE r \in S : TRUE

\* The value of x[lo] + y[lo] + carry, as one limb and the carry out.
add_limb(x, y, lo, carry, base) ==
    [out |-> <<(x[lo] + y[lo] + carry) % base>>,
     carry |-> (x[lo] + y[lo] + carry) \div base]

RECURSIVE add_limbs(_, _, _, _, _, _)
\* The limbs lo..hi of x + y and the carry out of limb hi, for the carry into
\* limb lo; the carry ripples from the lower half of the range into the upper.
add_limbs(x, y, lo, hi, carry, base) ==
    IF lo = hi THEN add_limb(x, y, lo, carry, base)
    ELSE The({The({The({[out |-> low.out \o high.out, carry |-> high.carry]
                          : high \in {add_limbs(x, y, mid + 1, hi, low.carry, base)}})
                     : low \in {add_limbs(x, y, lo, mid, carry, base)}})
                : mid \in {(lo + hi) \div 2}})

add(x, y, base) == add_limbs(x, y, 1, Len(x), 0, base)

\* The value of x[lo] - y[lo] - borrow, as one limb and the borrow out.
subtract_limb(x, y, lo, borrow, base) ==
    [out |-> <<(x[lo] - y[lo] - borrow) % base>>,
     borrow |-> IF x[lo] - y[lo] - borrow < 0 THEN 1 ELSE 0]

RECURSIVE subtract_limbs(_, _, _, _, _, _)
\* The limbs lo..hi of x - y and the borrow out of limb hi.
subtract_limbs(x, y, lo, hi, borrow, base) ==
    IF lo = hi THEN subtract_limb(x, y, lo, borrow, base)
    ELSE The({The({The({[out |-> low.out \o high.out, borrow |-> high.borrow]
                          : high \in {subtract_limbs(x, y, mid + 1, hi, low.borrow, base)}})
                     : low \in {subtract_limbs(x, y, lo, mid, borrow, base)}})
                : mid \in {(lo + hi) \div 2}})

subtract(x, y, base) == subtract_limbs(x, y, 1, Len(x), 0, base)

\* x <= y: no limb of x is larger where all more significant limbs agree.
less_than_or_equal(x, y) ==
    ~\E i \in 1 .. Len(x) : x[i] > y[i] /\ \A j \in (i + 1) .. Len(x) : x[j] = y[j]

\* add, then subtract m once if the sum carried out or is >= m.
addmod384_64bitlimbs(x, y, m, base) ==
    The({IF s.carry # 0 \/ less_than_or_equal(m, s.out)
         THEN subtract(s.out, m, base).out
         ELSE s.out
           : s \in {add(x, y, base)}})

\* subtract, then add m once if the difference borrowed.
subtractmod384_64bitlimbs(x, y, m, base) ==
    The({IF d.borrow # 0 THEN add(d.out, m, base).out ELSE d.out
           : d \in {subtract(x, y, base)}})

\* The value of t[lo] + a[lo] * k + carry, as one limb and the carry out.
mul_add_limb(t, a, k, lo, carry, base) ==
    [out |-> <<(t[lo] + Limb(a, lo) * k + carry) % base>>,
     carry |-> (t[lo] + Limb(a, lo) * k + carry) \div base]

RECURSIVE mul_add_limbs(_, _, _, _, _, _, _)
\* The limbs lo..hi of t + a * k and the carry out of limb hi.
mul_add_limbs(t, a, k, lo, hi, carry, base) ==
    IF lo = hi THEN mul_add_limb(t, a, k, lo, carry, base)
    ELSE The({The({The({[out |-> low.out \o high.out, carry |-> high.carry]
                          : high \in {mul_add_limbs(t, a, k, mid + 1, hi, low.carry, base)}})
                     : low \in {mul_add_limbs(t, a, k, lo, mid, carry, base)}})
                : mid \in {(lo + hi) \div 2}})

\* t + a * k, at the length of t (t is longer than a).
mul_add(t, a, k, base) == mul_add_limbs(t, a, k, 1, Len(t), 0, base).out

\* One round of the Montgomery product: add x * yi, cancel the low limb with
\* a multiple of m, shift one limb down.
mont_round(t, x, yi, m, inv, base) ==
    The({The({Tail(mul_add(t1, m, q, base)) \o <<0>>
                : q \in {(t1[1] * inv) % base}})
           : t1 \in {mul_add(t, x, yi, base)}})

RECURSIVE mont_rounds(_, _, _, _, _, _, _, _)
\* The accumulator t after the rounds for the limbs lo..hi of y.
mont_rounds(t, x, y, m, inv, lo, hi, base) ==
    IF lo = hi THEN mont_round(t, x, y[lo], m, inv, base)
    ELSE The({The({mont_rounds(half, x, y, m, inv, mid + 1, hi, base)
                     : half \in {mont_rounds(t, x, y, m, inv, lo, mid, base)}})
                : mid \in {(lo + hi) \div 2}})

\* out = x * y / base^Len(x) mod m, for inv = -1/m mod base.
mulx_mont_384(x, y, m, inv, base) ==
    The({IF t[Len(x) + 1] # 0 \/ less_than_or_equal(m, SubSeq(t, 1, Len(x)))
         THEN subtract(SubSeq(t, 1, Len(x)), m, base).out
         ELSE SubSeq(t, 1, Len(x))
           : t \in {mont_rounds(Zeros(Len(x) + 2), x, y, m, inv, 1, Len(y), base)}})

(***************************************************************************)
(* The state of one frame: the execution_state of execute(), the cursor    *)
(* instr of its dispatch loop, the evmc_result it returns, the status and  *)
(* cost the last status-returning operation reported (last_op), and the    *)
(* gas a per-instruction meter would show (metered, the reference the      *)
(* block accounting is compared with).                                     *)
(***************************************************************************)
VARIABLES code, analysis, msg, gas_left, current_block_cost, status, stack,
          memory, output_offset, output_size, instr, result, last_op, metered,
          input, output

vars == <<code, analysis, msg, gas_left, current_block_cost, status, stack,
          memory, output_offset, output_size, instr, result, last_op, metered,
          input, output>>

\* What a frame never changes: its code, analysis and message, and the
\* argument and value of a function applied outside a frame.
frame == <<code, analysis, msg, input, output>>

\* No function is being applied.
NoInput == [fn |-> "none"]
NoOutput == [fn |-> "none"]

NoResult == [status_code |-> "none", gas_left |-> 0, output_offset |-> 0, output_size |-> 0]

NoOp == [fn |-> "none", status |-> "none", cost |-> 0]

(***************************************************************************)
(* The programs and gas limits execute() is run on.                        *)
(***************************************************************************)
\* Immediates of the enumerated PUSH1 instructions: jump targets, a value
\* above INT_MAX, and one that a cast to int would truncate to 3.
PushVals == {0, 1, 3, 5, INT_MAX + 1, UINT32_MOD + 3}

Ops == {"STOP", "POP", "DUP1", "MSIZE", "MSTORE8", "JUMP", "JUMPI", "JUMPDEST",
        "PC", "GAS", "SSTORE", "LOG0", "RETURN", "REVERT", "INVALID", "UNDEFINED",
        "SELFDESTRUCT"}

Ops384 == {"ADDMOD384", "SUBMOD384", "MULMODMONT384"}

\* The stack word that packs the four offsets of a 384-bit instruction.
Word384(out_offset, x_offset, y_offset, mod_offset) ==
    mod_offset + UINT32_MOD * (y_offset + UINT32_MOD * (x_offset + UINT32_MOD * out_offset))

\* All offsets 0; the layout out=160, x=64, y=112, mod=0; the same with a bit
\* above the four fields; a modulus so high that mod_offset + 48 wraps.
Words384 == {Word384(0, 0, 0, 0), Word384(160, 64, 112, 0),
             Word384(160, 64, 112, 0) + Pow(UINT32_MOD, 4),
             Word384(0, 0, 0, UINT32_MOD - 40)}

Pushes == UNION {[1 .. n -> {Push1(v) : v \in PushVals}] : n \in 0 .. MaxPushes}

Tails == {<<>>, <<Item("JUMPDEST"), Item("GAS")>>, <<Item("PC"), Item("JUMPDEST")>>}

\* JUMPDEST; PUSH1 1; PUSH1 0; JUMP: each iteration leaves one more item.
LoopCode == <<Item("JUMPDEST"), Push1(1), Push1(0), Item("JUMP")>>

\* The cost of the 1023 iterations that fill the stack, and some more.
LoopGas == 1023 * (gas_costs("JUMPDEST") + 2 * gas_costs("PUSH1") + gas_costs("JUMP"))
           + LoopSlack

Repeat(it, n) == [i \in 1 .. n |-> it]

\* The modulus 6 at offset 0, x = 3 at offset 64 and y = 5 at offset 112, then
\* a 384-bit instruction on the word that encodes out=160, x=64, y=112, mod=0.
LayoutCode(op) ==
    <<Push1(6), Push1(0), Item("MSTORE8"), Push1(3), Push1(64), Item("MSTORE8"),
      Push1(5), Push1(112), Item("MSTORE8"), Push16(Word384(160, 64, 112, 0)), Item(op)>>

LayoutCodes == {LayoutCode(op) : op \in Ops384}

\* Enough gas for a layout program and its 7 words of memory.
LayoutGas == 2 * MaxGas + 4

ExtraCodes ==
    LayoutCodes \cup
    {LoopCode,
     <<Item("JUMPDEST"), Push1(0), Item("JUMP")>>,
     <<Item("JUMPDEST"), Push1(1), Push1(0), Item("JUMPI")>>,
     <<Push1(0)>> \o Repeat(Item("DUP1"), 6) \o <<Item("CALL")>>,
     <<Push1(0)>> \o Repeat(Item("DUP1"), 6) \o <<Item("CALL"), Item("GAS")>>,
     <<Push1(0), Item("DUP1"), Item("DUP1"), Item("CREATE")>>,
     <<Push1(0), Item("DUP1"), Item("DUP1"), Item("CREATE"), Item("GAS")>>,
     <<Push16(0), Item("ADDMOD384"), Push1(1), Push1(0), Item("RETURN")>>,
     <<Push1(7), Push1(0), Item("MSTORE8"), Push16(0), Item("SUBMOD384")>>,
     <<Push1(0), Push1(1), Item("SSTORE"), Item("GAS"), Push1(0), Item("JUMPI")>>}

Codes ==
    {p \o <<Item(op)>> \o t : p \in Pushes, op \in Ops, t \in Tails}
    \cup {<<Push16(w), Item(op)>> \o t : w \in Words384, op \in Ops384,
                                         t \in {<<>>, <<Item("GAS")>>}}
    \cup ExtraCodes

\* The programs termination is checked on: the loops, and one program for
\* each handler.
GasLimits(c) ==
    CASE c = LoopCode -> (0 .. MaxGas) \cup {LoopGas}
      [] c \in LayoutCodes -> {LayoutGas}
      [] OTHER -> 0 .. MaxGas

(***************************************************************************)
(* execute(): the construction of the state, the dispatch loop and the     *)
(* packaging of the result.                                                *)
(***************************************************************************)
Init ==
    \E c \in Codes : \E g \in GasLimits(c) :
        /\ code = c
        /\ analysis = analyze(c)
        /\ msg = [gas |-> g]
        /\ gas_left = g
        /\ current_block_cost = 0
        /\ status = EVMC_SUCCESS
        /\ stack = EmptyStack
        /\ memory = <<>>
        /\ output_offset = 0
        /\ output_size = 0
        /\ instr = 1
        /\ result = NoResult
        /\ last_op = NoOp
        /\ metered = g
        /\ input = NoInput
        /\ output = NoOutput


\* The instruction under the cursor.
Cur == analysis.instrs[instr]

\* while (instr != nullptr) instr = instr->fn(instr, *state)
Dispatch(fn) == instr # nullptr /\ Cur.fn = fn

\* state.exit(status_code)
exit(status_code) == status' = status_code /\ instr' = nullptr

\* The reference meter: the instruction's own static cost and its dynamic cost.
static_cost(ins) ==
    IF ins.op = "BEGINBLOCK" \/ gas_costs(ins.op) = undefined THEN 0 ELSE gas_costs(ins.op)

\* The per-instruction meter; it stops counting at -MaxDebt.
Meter(dynamic) == metered' = Max(metered - static_cost(Cur) - dynamic, -MaxDebt)

execute_return ==
    /\ instr = nullptr
    /\ result = NoResult
    /\ result' = [status_code |-> status,
                  gas_left |-> IF status = EVMC_SUCCESS \/ status = EVMC_REVERT
                               THEN gas_left ELSE 0,
                  output_offset |-> output_offset,
                  output_size |-> output_size]
    /\ UNCHANGED <<frame, gas_left, current_block_cost, status, stack, memory,
                   output_offset, output_size, instr, last_op, metered>>

(***************************************************************************)
(* The handlers.  Each action is one call instr->fn(instr, *state).        *)
(***************************************************************************)
\* op<void InstrFn(evm_stack&)>
op_stack ==
    /\ Dispatch("op_stack")
    /\ \E s \in stack_fn(Cur.op, stack) : stack' = s
    /\ instr' = instr + 1
    /\ Meter(0)
    /\ UNCHANGED <<frame, gas_left, current_block_cost, status, memory,
                   output_offset, output_size, result, last_op>>

\* op<void InstrFn(ExecutionState&)>
op_state ==
    /\ Dispatch("op_state")
    /\ stack' = state_fn(Cur.op, stack, memory)
    /\ instr' = instr + 1
    /\ Meter(0)
    /\ UNCHANGED <<frame, gas_left, current_block_cost, status, memory,
                   output_offset, output_size, result, last_op>>

\* op<evmc_status_code InstrFn(ExecutionState&)>
op_status ==
    /\ Dispatch("op_status")
    /\ \E r \in mstore8(gas_left, stack, memory) :
        /\ gas_left' = r.gas_left
        /\ stack' = r.stack
        /\ memory' = r.memory
        /\ last_op' = [fn |-> "mstore8", status |-> r.status, cost |-> gas_left - r.gas_left]
        /\ Meter(gas_left - r.gas_left)
        /\ IF r.status # EVMC_SUCCESS
           THEN exit(r.status)
           ELSE instr' = instr + 1 /\ UNCHANGED status
    /\ UNCHANGED <<frame, current_block_cost, output_offset, output_size, result>>

op_stop ==
    /\ Dispatch("op_stop")
    /\ exit(EVMC_SUCCESS)
    /\ Meter(0)
    /\ UNCHANGED <<frame, gas_left, current_block_cost, stack, memory,
                   output_offset, output_size, result, last_op>>

\* op_sstore keeping the correction in gas_left.
op_sstore_no_redebit ==
    /\ Dispatch("op_sstore")
    /\ LET gas_left_correction == current_block_cost - Cur.number
       IN  \E r \in sstore(gas_left + gas_left_correction, stack) :
            /\ stack' = r.stack
            /\ last_op' = [fn |-> "sstore", status |-> r.status, cost |-> r.cost]
            /\ Meter(r.cost)
            /\ gas_left' = r.gas_left
            /\ IF r.status # EVMC_SUCCESS
               THEN exit(r.status)
               ELSE instr' = instr + 1 /\ UNCHANGED status
    /\ UNCHANGED <<frame, current_block_cost, memory, output_offset, output_size, result>>

\* op_sstore(instr, state)
op_sstore ==
    /\ Dispatch("op_sstore")
    /\ LET gas_left_correction == current_block_cost - Cur.number
       IN  \E r \in sstore(gas_left + gas_left_correction, stack) :
            /\ stack' = r.stack
            /\ last_op' = [fn |-> "sstore", status |-> r.status, cost |-> r.cost]
            /\ Meter(r.cost)
            /\ IF r.status # EVMC_SUCCESS
               THEN gas_left' = r.gas_left /\ exit(r.status)
               ELSE /\ gas_left' = r.gas_left - gas_left_correction
                    /\ IF r.gas_left - gas_left_correction < 0
                       THEN exit(EVMC_OUT_OF_GAS)
                       ELSE instr' = instr + 1 /\ UNCHANGED status
    /\ UNCHANGED <<frame, current_block_cost, memory, output_offset, output_size, result>>

\* static_cast<int>(dst)
cast_int(dst) ==
    LET r == dst % UINT32_MOD IN IF r > INT_MAX THEN r - UINT32_MOD ELSE r

\* The lookup without op_jump's guard on destinations above INT_MAX.
jump_pc_unguarded(dst) == find_jumpdest(analysis, cast_int(dst))

\* The pc op_jump computes for dst: the target's instruction index, or -1.
jump_pc(dst) ==
    IF INT_MAX < dst THEN -1 ELSE find_jumpdest(analysis, cast_int(dst))

\* op_jump returning the instruction after the one the lookup found.
op_jump_call_past_target(stk) ==
    {LET pc == jump_pc(dst)
     IN  IF pc < 0
         THEN [stack |-> pop(stk), instr |-> nullptr, status |-> EVMC_BAD_JUMP_DESTINATION]
         ELSE [stack |-> pop(stk), instr |-> pc + 2, status |-> status]
       : dst \in item(stk, 0)}

\* op_jump(instr, state): the stack, cursor and status it leaves.
op_jump_call(stk) ==
    {LET pc == jump_pc(dst)
     IN  IF pc < 0
         THEN [stack |-> pop(stk), instr |-> nullptr, status |-> EVMC_BAD_JUMP_DESTINATION]
         ELSE [stack |-> pop(stk), instr |-> pc + 1, status |-> status]
       : dst \in item(stk, 0)}

op_jump ==
    /\ Dispatch("op_jump")
    /\ \E r \in op_jump_call(stack) :
        /\ stack' = r.stack
        /\ instr' = r.instr
        /\ status' = r.status
    /\ Meter(0)
    /\ UNCHANGED <<frame, gas_left, current_block_cost, memory,
                   output_offset, output_size, result, last_op>>

\* op_jumpi without the pop of the else branch.
op_jumpi_single_pop ==
    /\ Dispatch("op_jumpi")
    /\ \E cond \in item(stack, 1) :
        IF cond # 0
        THEN \E r \in op_jump_call(stack) :
                /\ stack' = pop(r.stack)
                /\ instr' = r.instr
                /\ status' = r.status
        ELSE /\ stack' = pop(stack)
             /\ instr' = instr + 1
             /\ UNCHANGED status
    /\ Meter(0)
    /\ UNCHANGED <<frame, gas_left, current_block_cost, memory,
                   output_offset, output_size, result, last_op>>

\* op_jumpi
op_jumpi ==
    /\ Dispatch("op_jumpi")
    /\ \E cond \in item(stack, 1) :
        IF cond # 0
        THEN \E r \in op_jump_call(stack) :
                /\ stack' = pop(r.stack)
                /\ instr' = r.instr
                /\ status' = r.status
        ELSE /\ stack' = pop(pop(stack))
             /\ instr' = instr + 1
             /\ UNCHANGED status
    /\ Meter(0)
    /\ UNCHANGED <<frame, gas_left, current_block_cost, memory,
                   output_offset, output_size, result, last_op>>

op_pc ==
    /\ Dispatch("op_pc")
    /\ stack' = push(stack, Cur.number)
    /\ instr' = instr + 1
    /\ Meter(0)
    /\ UNCHANGED <<frame, gas_left, current_block_cost, status, memory,
                   output_offset, output_size, result, last_op>>

\* op_gas's value without the correction.
op_gas_value_uncorrected == gas_left % WORD_MOD

\* static_cast<uint64_t>(state.gas_left + correction), at the width of a word.
op_gas_value == (gas_left + (current_block_cost - Cur.number)) % WORD_MOD

op_gas ==
    /\ Dispatch("op_gas")
    /\ stack' = push(stack, op_gas_value)
    /\ instr' = instr + 1
    /\ Meter(0)
    /\ UNCHANGED <<frame, gas_left, current_block_cost, status, memory,
                   output_offset, output_size, result, last_op>>

op_push_small ==
    /\ Dispatch("op_push_small")
    /\ stack' = push(stack, Cur.number)
    /\ instr' = instr + 1
    /\ Meter(0)
    /\ UNCHANGED <<frame, gas_left, current_block_cost, status, memory,
                   output_offset, output_size, result, last_op>>

op_push_full ==
    /\ Dispatch("op_push_full")
    /\ stack' = push(stack, Cur.number)
    /\ instr' = instr + 1
    /\ Meter(0)
    /\ UNCHANGED <<frame, gas_left, current_block_cost, status, memory,
                   output_offset, output_size, result, last_op>>

\* op_log going on whatever status log reports.
op_log_ignores_status ==
    /\ Dispatch("op_log")
    /\ \E r \in log(gas_left, stack, memory) :
        /\ gas_left' = r.gas_left
        /\ stack' = r.stack
        /\ memory' = r.memory
        /\ last_op' = [fn |-> "log", status |-> r.status, cost |-> r.cost]
        /\ Meter(r.cost)
        /\ instr' = instr + 1
        /\ UNCHANGED status
    /\ UNCHANGED <<frame, current_block_cost, output_offset, output_size, result>>

\* op_log<OP_LOG0>
op_log ==
    /\ Dispatch("op_log")
    /\ \E r \in log(gas_left, stack, memory) :
        /\ gas_left' = r.gas_left
        /\ stack' = r.stack
        /\ memory' = r.memory
        /\ last_op' = [fn |-> "log", status |-> r.status, cost |-> r.cost]
        /\ Meter(r.cost)
        /\ IF r.status # EVMC_SUCCESS
           THEN exit(r.status)
           ELSE instr' = instr + 1 /\ UNCHANGED status
    /\ UNCHANGED <<frame, current_block_cost, output_offset, output_size, result>>

op_invalid ==
    /\ Dispatch("op_invalid")
    /\ exit(EVMC_INVALID_INSTRUCTION)
    /\ Meter(0)
    /\ UNCHANGED <<frame, gas_left, current_block_cost, stack, memory,
                   output_offset, output_size, result, last_op>>

\* The template argument of op_return for the opcode.
return_status(op) == IF op = "RETURN" THEN EVMC_SUCCESS ELSE EVMC_REVERT

\* op_return recording the offset also when the size is zero.
op_return_offset_always(status_code) ==
    /\ Dispatch("op_return")
    /\ return_status(Cur.op) = status_code
    /\ \E offset \in item(stack, 0) : \E sz \in item(stack, 1) :
        LET cm == check_memory_range(gas_left, memory, offset, sz)
        IN  /\ gas_left' = cm.gas_left
            /\ memory' = cm.memory
            /\ Meter(gas_left - cm.gas_left)
            /\ IF ~cm.ok
               THEN exit(EVMC_OUT_OF_GAS) /\ UNCHANGED <<output_offset, output_size>>
               ELSE /\ output_size' = sz
                    /\ output_offset' = offset
                    /\ exit(status_code)
    /\ UNCHANGED <<frame, current_block_cost, stack, result, last_op>>

\* op_return<status_code>
op_return(status_code) ==
    /\ Dispatch("op_return")
    /\ return_status(Cur.op) = status_code
    /\ \E offset \in item(stack, 0) : \E sz \in item(stack, 1) :
        LET cm == check_memory_range(gas_left, memory, offset, sz)
        IN  /\ gas_left' = cm.gas_left
            /\ memory' = cm.memory
            /\ Meter(gas_left - cm.gas_left)
            /\ IF ~cm.ok
               THEN exit(EVMC_OUT_OF_GAS) /\ UNCHANGED <<output_offset, output_size>>
               ELSE /\ output_size' = sz
                    /\ output_offset' = IF sz # 0 THEN offset ELSE output_offset
                    /\ exit(status_code)
    /\ UNCHANGED <<frame, current_block_cost, stack, result, last_op>>

\* op_call<Kind, Static>
op_call ==
    /\ Dispatch("op_call")
    /\ LET gas_left_correction == current_block_cost - Cur.number
       IN  \E r \in call(gas_left + gas_left_correction, stack) :
            /\ stack' = r.stack
            /\ last_op' = [fn |-> "call", status |-> r.status, cost |-> r.cost]
            /\ Meter(r.cost)
            /\ IF r.status # EVMC_SUCCESS
               THEN gas_left' = r.gas_left /\ exit(r.status)
               ELSE /\ gas_left' = r.gas_left - gas_left_correction
                    /\ IF r.gas_left - gas_left_correction < 0
                       THEN exit(EVMC_OUT_OF_GAS)
                       ELSE instr' = instr + 1 /\ UNCHANGED status
    /\ UNCHANGED <<frame, current_block_cost, memory, output_offset, output_size, result>>

\* op_create<Kind>
op_create ==
    /\ Dispatch("op_create")
    /\ LET gas_left_correction == current_block_cost - Cur.number
       IN  \E r \in create(gas_left + gas_left_correction, stack) :
            /\ stack' = r.stack
            /\ last_op' = [fn |-> "create", status |-> r.status, cost |-> r.cost]
            /\ Meter(r.cost)
            /\ IF r.status # EVMC_SUCCESS
               THEN gas_left' = r.gas_left /\ exit(r.status)
               ELSE /\ gas_left' = r.gas_left - gas_left_correction
                    /\ IF r.gas_left - gas_left_correction < 0
                       THEN exit(EVMC_OUT_OF_GAS)
                       ELSE instr' = instr + 1 /\ UNCHANGED status
    /\ UNCHANGED <<frame, current_block_cost, memory, output_offset, output_size, result>>

\* op_undefined reporting the status of op_invalid.
op_undefined_as_invalid ==
    /\ Dispatch("op_undefined")
    /\ exit(EVMC_INVALID_INSTRUCTION)
    /\ Meter(0)
    /\ UNCHANGED <<frame, gas_left, current_block_cost, stack, memory,
                   output_offset, output_size, result, last_op>>

\* op_undefined
op_undefined ==
    /\ Dispatch("op_undefined")
    /\ exit(EVMC_UNDEFINED_INSTRUCTION)
    /\ Meter(0)
    /\ UNCHANGED <<frame, gas_left, current_block_cost, stack, memory,
                   output_offset, output_size, result, last_op>>

op_selfdestruct ==
    /\ Dispatch("op_selfdestruct")
    /\ \E r \in selfdestruct(gas_left, stack) :
        /\ stack' = r.stack
        /\ gas_left' = r.gas_left
        /\ last_op' = [fn |-> "selfdestruct", status |-> r.status, cost |-> r.cost]
        /\ Meter(r.cost)
        /\ exit(r.status)
    /\ UNCHANGED <<frame, current_block_cost, memory, output_offset, output_size, result>>

\* Variants of beginblock (below): without the gas debit, without the
\* stack_req test, and with the limit test off by one.
beginblock_no_debit(block, gl, stk) ==
    [gas_left |-> gl,
     halt |-> IF size(stk) < block.stack_req THEN EVMC_STACK_UNDERFLOW
              ELSE IF size(stk) + block.stack_max_growth > limit THEN EVMC_STACK_OVERFLOW
              ELSE "none"]

beginblock_no_stack_req(block, gl, stk) ==
    [gas_left |-> gl - block.gas_cost,
     halt |-> IF gl - block.gas_cost < 0 THEN EVMC_OUT_OF_GAS
              ELSE IF size(stk) + block.stack_max_growth > limit THEN EVMC_STACK_OVERFLOW
              ELSE "none"]

beginblock_limit_off_by_one(block, gl, stk) ==
    [gas_left |-> gl - block.gas_cost,
     halt |-> IF gl - block.gas_cost < 0 THEN EVMC_OUT_OF_GAS
              ELSE IF size(stk) < block.stack_req THEN EVMC_STACK_UNDERFLOW
              ELSE IF size(stk) + block.stack_max_growth >= limit THEN EVMC_STACK_OVERFLOW
              ELSE "none"]

\* The checks of opx_beginblock for a block entered with gas_left = gl and
\* stack stk: gas_left after the debit and the status it exits
\* with ("none" when the block is entered).
beginblock(block, gl, stk) ==
    [gas_left |-> gl - block.gas_cost,
     halt |-> IF gl - block.gas_cost < 0 THEN EVMC_OUT_OF_GAS
              ELSE IF size(stk) < block.stack_req THEN EVMC_STACK_UNDERFLOW
              ELSE IF size(stk) + block.stack_max_growth > limit THEN EVMC_STACK_OVERFLOW
              ELSE "none"]

\* opx_beginblock storing the block's cost before the checks.
opx_beginblock_cost_first ==
    /\ Dispatch("opx_beginblock")
    /\ LET r == beginblock(Cur.block, gas_left, stack)
       IN  /\ gas_left' = r.gas_left
           /\ current_block_cost' = Cur.block.gas_cost
           /\ IF r.halt # "none"
              THEN exit(r.halt)
              ELSE instr' = instr + 1 /\ UNCHANGED status
    /\ Meter(0)
    /\ UNCHANGED <<frame, stack, memory, output_offset, output_size, result, last_op>>

\* opx_beginblock
opx_beginblock ==
    /\ Dispatch("opx_beginblock")
    /\ LET r == beginblock(Cur.block, gas_left, stack)
       IN  /\ gas_left' = r.gas_left
           /\ IF r.halt # "none"
              THEN exit(r.halt) /\ UNCHANGED current_block_cost
              ELSE /\ current_block_cost' = Cur.block.gas_cost
                   /\ instr' = instr + 1
                   /\ UNCHANGED status
    /\ Meter(0)
    /\ UNCHANGED <<frame, stack, memory, output_offset, output_size, result, last_op>>

(***************************************************************************)
(* The 384-bit handlers.  The popped word is read as bytes; the 32-bit     *)
(* field at byte 4k is digit k of the word in base UINT32_MOD.             *)
(***************************************************************************)
\* *reinterpret_cast<const uint32_t*>(&params[byte])
uint32_at(arg, byte) == (arg \div Pow(UINT32_MOD, byte \div 4)) % UINT32_MOD

\* The four fields read in the opposite order: out from params[0], mod from params[12].
offsets_reversed(arg) ==
    [out_offset |-> uint32_at(arg, 0), x_offset |-> uint32_at(arg, 4),
     y_offset |-> uint32_at(arg, 8), mod_offset |-> uint32_at(arg, 12)]

\* out_offset, x_offset, y_offset, mod_offset of the popped word
offsets(arg) ==
    [out_offset |-> uint32_at(arg, 12), x_offset |-> uint32_at(arg, 8),
     y_offset |-> uint32_at(arg, 4), mod_offset |-> uint32_at(arg, 0)]

\* The maximum over the operands only, the output offset left out.
max_memory_index_operands(o) ==
    Max(Max(o.x_offset, o.y_offset), o.mod_offset)

\* std::max(std::max(x_offset, y_offset), std::max(out_offset, mod_offset))
max_memory_index(o) ==
    Max(Max(o.x_offset, o.y_offset), Max(o.out_offset, o.mod_offset))

op_addmod384 ==
    /\ Dispatch("op_addmod384")
    /\ \E arg \in item(stack, 0) :
       \E cm \in {check_memory(gas_left, memory, max_memory_index(offsets(arg)), 48)} :
        LET o == offsets(arg)
        IN  /\ stack' = pop(stack)
            /\ gas_left' = cm.gas_left
            /\ Meter(gas_left - cm.gas_left)
            /\ IF ~cm.ok
               THEN instr' = nullptr /\ UNCHANGED memory
               ELSE /\ \E x \in {read_bytes(cm.memory, o.x_offset, 48)} :
                       \E y \in {read_bytes(cm.memory, o.y_offset, 48)} :
                       \E m \in {read_bytes(cm.memory, o.mod_offset, 48)} :
                       \E out \in {addmod384_64bitlimbs(x, y, m, 256)} :
                          memory' = write_bytes(cm.memory, o.out_offset, out)
                    /\ instr' = instr + 1
    /\ UNCHANGED <<frame, current_block_cost, status, output_offset, output_size,
                   result, last_op>>

op_submod384 ==
    /\ Dispatch("op_submod384")
    /\ \E arg \in item(stack, 0) :
       \E cm \in {check_memory(gas_left, memory, max_memory_index(offsets(arg)), 48)} :
        LET o == offsets(arg)
        IN  /\ stack' = pop(stack)
            /\ gas_left' = cm.gas_left
            /\ Meter(gas_left - cm.gas_left)
            /\ IF ~cm.ok
               THEN instr' = nullptr /\ UNCHANGED memory
               ELSE /\ \E x \in {read_bytes(cm.memory, o.x_offset, 48)} :
                       \E y \in {read_bytes(cm.memory, o.y_offset, 48)} :
                       \E m \in {read_bytes(cm.memory, o.mod_offset, 48)} :
                       \E out \in {subtractmod384_64bitlimbs(x, y, m, 256)} :
                          memory' = write_bytes(cm.memory, o.out_offset, out)
                    /\ instr' = instr + 1
    /\ UNCHANGED <<frame, current_block_cost, status, output_offset, output_size,
                   result, last_op>>

\* The index mod_offset + 48 of the inverse, computed in uint32_t.
inv_index(o) == (o.mod_offset + 48) % UINT32_MOD

\* The inverse is the 64-bit limb at inv_index; at the model's limb width it
\* is the byte there.
op_mulmodmont384 ==
    /\ Dispatch("op_mulmodmont384")
    /\ \E arg \in item(stack, 0) :
       \E cm \in {check_memory(gas_left, memory, max_memory_index(offsets(arg)), 56)} :
        LET o == offsets(arg)
        IN  /\ stack' = pop(stack)
            /\ gas_left' = cm.gas_left
            /\ Meter(gas_left - cm.gas_left)
            /\ IF ~cm.ok
               THEN instr' = nullptr /\ UNCHANGED memory
               ELSE /\ \E x \in {read_bytes(cm.memory, o.x_offset, 48)} :
                       \E y \in {read_bytes(cm.memory, o.y_offset, 48)} :
                       \E m \in {read_bytes(cm.memory, o.mod_offset, 48)} :
                       \E inv \in {byte_at(cm.memory, inv_index(o))} :
                       \E out \in {mulx_mont_384(x, y, m, inv, 256)} :
                          memory' = write_bytes(cm.memory, o.out_offset, out)
                    /\ instr' = instr + 1
    /\ UNCHANGED <<frame, current_block_cost, status, output_offset, output_size,
                   result, last_op>>

Next ==
    \/ op_stack
    \/ op_state
    \/ op_status
    \/ op_stop
    \/ op_sstore
    \/ op_jump
    \/ op_jumpi
    \/ op_pc
    \/ op_gas
    \/ op_push_small
    \/ op_push_full
    \/ op_log
    \/ op_invalid
    \/ op_return(EVMC_SUCCESS)
    \/ op_return(EVMC_REVERT)
    \/ op_call
    \/ op_create
    \/ op_undefined
    \/ op_selfdestruct
    \/ opx_beginblock
    \/ op_addmod384
    \/ op_submod384
    \/ op_mulmodmont384
    \/ execute_return

Spec == Init /\ [][Next]_vars

\* The loop of execute() runs without suspension: a step that can be taken is taken.
FairSpec == Spec /\ WF_vars(Next)

(***************************************************************************)
(* The functions of the program applied to arguments of their own: the     *)
(* construction of an op table entry and the dispatch of the handler it    *)
(* installs, and the 384-bit kernels on operands of NumLimbs limbs.        *)
(***************************************************************************)
Revisions == 0 .. EVMC_MAX_REVISION

\* The entries a revision's schedule can have for an opcode: INVALID is in
\* every schedule, a byte without a name in none, any other opcode is
\* either not yet defined or has its cost.
Costs(op) ==
    CASE op = "INVALID" -> {gas_costs(op)}
      [] op = "UNDEFINED" -> {undefined}
      [] OTHER -> {undefined, gas_costs(op)}

TableInputs ==
    UNION {{[fn |-> "get_op_table", rev |-> rev, op |-> op, gas_cost |-> c] : c \in Costs(op)}
             : rev \in Revisions, op \in Opcodes}

Operands == [1 .. NumLimbs -> 0 .. LimbBase - 1]

KernelInputs ==
    {[fn |-> f, x |-> x, y |-> y, m |-> m] :
        f \in {"addmod384_64bitlimbs", "subtractmod384_64bitlimbs"},
        x \in Operands, y \in Operands, m \in Operands}

\* The frame around a function applied on its own: one instruction whose
\* handler is not installed yet.
InitFrame(op) ==
    /\ code = <<Item(op)>>
    /\ analysis = [instrs |-> <<Instruction(no_fn, op, 0)>>, jumpdests |-> <<>>]
    /\ msg = [gas |-> 0]
    /\ gas_left = 0
    /\ current_block_cost = 0
    /\ status = EVMC_SUCCESS
    /\ stack = EmptyStack
    /\ memory = <<>>
    /\ output_offset = 0
    /\ output_size = 0
    /\ instr = 1
    /\ result = NoResult
    /\ last_op = NoOp
    /\ metered = 0
    /\ output = NoOutput

InitFn ==
    \/ \E in \in TableInputs : input = in /\ InitFrame(in.op)
    \/ \E in \in KernelInputs : input = in /\ InitFrame("STOP")

\* get_op_table(rev)[op]: the entry of the revision's table, and the
\* instruction of the stream that takes its handler from it.
get_op_table ==
    /\ input.fn = "get_op_table"
    /\ output = NoOutput
    /\ input.rev < op_tables_size
    /\ \E t \in {op_table_entry(input.gas_cost, input.op)} :
        /\ output' = [fn |-> "get_op_table", entry |-> t]
        /\ analysis' = [analysis EXCEPT !.instrs = <<Instruction(t.fn, input.op, 0)>>]
    /\ UNCHANGED <<code, msg, gas_left, current_block_cost, status, stack, memory,
                   output_offset, output_size, instr, result, last_op, metered, input>>

\* The call of addmod384_64bitlimbs with y and m exchanged.
apply_addmod384_swapped ==
    /\ input.fn = "addmod384_64bitlimbs"
    /\ output = NoOutput
    /\ output' = [fn |-> input.fn,
                  out |-> addmod384_64bitlimbs(input.x, input.m, input.y, LimbBase)]
    /\ UNCHANGED <<code, analysis, msg, gas_left, current_block_cost, status, stack, memory,
                   output_offset, output_size, instr, result, last_op, metered, input>>

\* addmod384_64bitlimbs(out, x, y, m)
apply_addmod384 ==
    /\ input.fn = "addmod384_64bitlimbs"
    /\ output = NoOutput
    /\ output' = [fn |-> input.fn,
                  out |-> addmod384_64bitlimbs(input.x, input.y, input.m, LimbBase)]
    /\ UNCHANGED <<code, analysis, msg, gas_left, current_block_cost, status, stack, memory,
                   output_offset, output_size, instr, result, last_op, metered, input>>

\* The call of subtractmod384_64bitlimbs with x and y exchanged.
apply_subtractmod384_swapped ==
    /\ input.fn = "subtractmod384_64bitlimbs"
    /\ output = NoOutput
    /\ output' = [fn |-> input.fn,
                  out |-> subtractmod384_64bitlimbs(input.y, input.x, input.m, LimbBase)]
    /\ UNCHANGED <<code, analysis, msg, gas_left, current_block_cost, status, stack, memory,
                   output_offset, output_size, instr, result, last_op, metered, input>>

\* subtractmod384_64bitlimbs(out, x, y, m)
apply_subtractmod384 ==
    /\ input.fn = "subtractmod384_64bitlimbs"
    /\ output = NoOutput
    /\ output' = [fn |-> input.fn,
                  out |-> subtractmod384_64bitlimbs(input.x, input.y, input.m, LimbBase)]
    /\ UNCHANGED <<code, analysis, msg, gas_left, current_block_cost, status, stack, memory,
                   output_offset, output_size, instr, result, last_op, metered, input>>

NextFn ==
    \/ get_op_table
    \/ op_invalid
    \/ op_undefined
    \/ execute_return
    \/ apply_addmod384
    \/ apply_subtractmod384

FnSpec == InitFn /\ [][NextFn]_vars

(***************************************************************************)
(* Properties.                                                             *)
(***************************************************************************)
Returned == result # NoResult

\* The top item of the stack and the one below it.
Top == stack.items[stack.top]
Second == stack.items[stack.top - 1]

\* A 384-bit handler is about to run and its memory check will fail.
Is384 == instr # nullptr /\ Cur.fn \in {"op_addmod384", "op_submod384", "op_mulmodmont384"}

Size384 == IF Cur.fn = "op_mulmodmont384" THEN 56 ELSE 48

MemoryCheckFails384 ==
    /\ Is384
    /\ stack.top >= 1
    /\ ~check_memory(gas_left, memory, max_memory_index(offsets(Top)), Size384).ok

\* C1: the result of execute reports 0 <= gas remaining <= the message's gas
\* limit when the status is Success or Revert, and 0 for every other status,
\* whichever handler stopped the loop.
C1_GasReported ==
    Returned =>
        IF result.status_code \in {EVMC_SUCCESS, EVMC_REVERT}
        THEN 0 <= result.gas_left /\ result.gas_left <= msg.gas
        ELSE result.gas_left = 0

\* C2: execution terminates: under the loop's progress, execute eventually
\* receives the halt sentinel and returns a result.
C2_Terminates == <>Returned

\* A backward-jumping loop has run several times and execute has returned.
C2_Witness ==
    /\ Returned
    /\ code = <<Item("JUMPDEST"), Push1(0), Item("JUMP")>>
    /\ msg.gas = MaxGas
    /\ result.status_code = EVMC_OUT_OF_GAS

\* C3: the stack depth stays within 0..1024, and StackUnderflow and
\* StackOverflow are only ever raised by a begin-block.
C3_StackBound ==
    /\ [](0 <= size(stack) /\ size(stack) <= limit)
    /\ [][status' \in {EVMC_STACK_UNDERFLOW, EVMC_STACK_OVERFLOW} /\ status' # status
            => Dispatch("opx_beginblock")]_vars

\* The begin-block of the loop stopped a push past 1024 items.
C3_Witness == status = EVMC_STACK_OVERFLOW /\ size(stack) = limit - 1

\* The destination a JUMP, or a JUMPI with a nonzero condition, is about to take.
Jumping ==
    \/ Dispatch("op_jump") /\ stack.top >= 1
    \/ Dispatch("op_jumpi") /\ stack.top >= 2 /\ Second # 0

\* The lookup maps no instruction to dst.
NotJumpdest(dst) == dst > INT_MAX \/ ~(\E jd \in analysis.jumpdests : jd[1] = dst)

\* C4: a JUMP, or a JUMPI with a nonzero condition, to a destination the
\* lookup does not map halts with BadJumpDestination and moves to no instruction.
C4_BadJump ==
    [][Jumping /\ NotJumpdest(Top)
          => status' = EVMC_BAD_JUMP_DESTINATION /\ instr' = nullptr]_vars

\* PUSH1 0; JUMP has halted with BadJumpDestination.
C4_Witness ==
    /\ code = <<Push1(0), Item("JUMP")>>
    /\ Returned
    /\ result.status_code = EVMC_BAD_JUMP_DESTINATION

\* C5: begin-block, entered with gas_left = g and depth d, halts with OutOfGas
\* if g - gas_cost < 0, else with StackUnderflow if d < stack_req, else with
\* StackOverflow if d + stack_max_growth > 1024; otherwise it sets gas_left to
\* g - gas_cost and current_block_cost to gas_cost and goes on to the next
\* instruction.
C5_BeginBlock ==
    [][Dispatch("opx_beginblock") =>
         IF gas_left - Cur.block.gas_cost < 0
         THEN status' = EVMC_OUT_OF_GAS /\ instr' = nullptr
         ELSE IF size(stack) < Cur.block.stack_req
         THEN status' = EVMC_STACK_UNDERFLOW /\ instr' = nullptr
         ELSE IF size(stack) + Cur.block.stack_max_growth > 1024
         THEN status' = EVMC_STACK_OVERFLOW /\ instr' = nullptr
         ELSE /\ gas_left' = gas_left - Cur.block.gas_cost
              /\ current_block_cost' = Cur.block.gas_cost
              /\ instr' = instr + 1
              /\ status' = status]_vars

\* The loop's block, which grows the stack by 2, was accepted at depth 1022.
C5_Witness ==
    /\ code = LoopCode
    /\ instr = 2
    /\ size(stack) = 1022
    /\ analysis.instrs[1].block.stack_max_growth = 2
    /\ current_block_cost = analysis.instrs[1].block.gas_cost

\* C6: a 384-bit handler whose memory check fails stops the loop with a fault
\* status (neither Success nor Revert) and writes no byte of memory.
C6_Fault384 ==
    [][MemoryCheckFails384 =>
         /\ instr' = nullptr
         /\ status' \notin {EVMC_SUCCESS, EVMC_REVERT}
         /\ memory' = memory]_vars

\* C7: at a begin-block that has not run yet, and at a halt with Success or
\* Revert, gas_left is what the per-instruction meter shows, and it is not
\* negative at the halt.
C7_Accounting ==
    /\ (instr # nullptr /\ Cur.fn = "opx_beginblock") => gas_left = metered
    /\ (instr = nullptr /\ status \in {EVMC_SUCCESS, EVMC_REVERT}) =>
          gas_left = metered /\ gas_left >= 0

\* The handlers of the dynamic-cost instructions.
DynamicCost == Cur.fn \in {"op_sstore", "op_call", "op_create"}

\* C8: a dynamic-cost instruction leaves current_block_cost alone; its
\* operation is charged against gas_left plus the correction; when the
\* operation succeeds, gas_left drops by exactly the charged cost, and the
\* handler halts with OutOfGas exactly if that leaves gas_left negative.
C8_Correction ==
    [][instr # nullptr /\ DynamicCost =>
         /\ current_block_cost' = current_block_cost
         /\ last_op'.status = EVMC_OUT_OF_GAS <=>
               gas_left + (current_block_cost - Cur.number) - last_op'.cost < 0
         /\ last_op'.status = EVMC_SUCCESS =>
               /\ gas_left' = gas_left - last_op'.cost
               /\ IF gas_left' < 0
                  THEN status' = EVMC_OUT_OF_GAS /\ instr' = nullptr
                  ELSE status' = status /\ instr' = instr + 1]_vars

\* A CALL with a positive correction and a positive cost completed, and the
\* GAS after it is about to run.
C8_Witness ==
    /\ instr # nullptr
    /\ Cur.fn = "op_gas"
    /\ analysis.instrs[instr - 1].fn = "op_call"
    /\ last_op.fn = "call"
    /\ last_op.status = EVMC_SUCCESS
    /\ last_op.cost > 0
    /\ current_block_cost - analysis.instrs[instr - 1].number > 0

\* C9: GAS pushes gas_left + (current_block_cost - its argument), which is
\* what the per-instruction meter shows after GAS and is not negative; it
\* changes neither gas_left nor current_block_cost.
C9_GasPushed ==
    [][Dispatch("op_gas") =>
         /\ stack'.items[stack'.top] = gas_left + (current_block_cost - Cur.number)
         /\ stack'.items[stack'.top] = metered'
         /\ stack'.items[stack'.top] >= 0
         /\ gas_left' = gas_left
         /\ current_block_cost' = current_block_cost]_vars

\* GAS ran with a positive correction and pushed more than gas_left.
C9_Witness ==
    /\ instr > 1
    /\ Cur.fn = "op_pc"
    /\ analysis.instrs[instr - 1].fn = "op_gas"
    /\ current_block_cost - analysis.instrs[instr - 1].number > 0
    /\ Top = gas_left + (current_block_cost - analysis.instrs[instr - 1].number)

\* The handlers that run an operation that reports a status.
ReportsStatus == Cur.fn \in {"op_status", "op_sstore", "op_log", "op_call", "op_create"}

\* C10 as stated: a status other than success halts the frame with that
\* status; success continues with the next instruction.
C10_AsStated ==
    [][instr # nullptr /\ ReportsStatus =>
         IF last_op'.status # EVMC_SUCCESS
         THEN status' = last_op'.status /\ instr' = nullptr
         ELSE status' = status /\ instr' = instr + 1]_vars

\* C10: a status other than success halts the frame with that status; on
\* success execution continues with the next instruction, unless the handler
\* is a dynamic-cost one and taking the correction back leaves gas_left
\* negative, when it halts with OutOfGas.
C10_StatusHalts ==
    [][instr # nullptr /\ ReportsStatus =>
         IF last_op'.status # EVMC_SUCCESS
         THEN status' = last_op'.status /\ instr' = nullptr
         ELSE IF DynamicCost /\ gas_left' < 0
         THEN status' = EVMC_OUT_OF_GAS /\ instr' = nullptr
         ELSE status' = status /\ instr' = instr + 1]_vars

\* SSTORE's operation succeeded and the handler halted with OutOfGas.
C10_Witness ==
    /\ last_op.fn = "sstore"
    /\ last_op.status = EVMC_SUCCESS
    /\ status = EVMC_OUT_OF_GAS
    /\ instr = nullptr
    /\ gas_left < 0

\* The bounds check of RETURN/REVERT for the range on top of the stack fails:
\* the range is not empty, and its size or offset is too large or the growth
\* of memory it needs cannot be paid.
ReturnCheckFails ==
    /\ Second # 0
    /\ \/ Second > max_buffer_size
       \/ Top > max_buffer_size
       \/ /\ Top + Second > Len(memory)
          /\ gas_left - (memory_cost(num_words(Top + Second))
                           - memory_cost(Len(memory) \div 32)) < 0

\* C11: RETURN/REVERT with (offset, size) on top of the stack: when the bounds
\* check fails the frame halts with OutOfGas and the output range stays as it
\* was (empty); otherwise output_size is size, output_offset is offset when
\* size is nonzero and is unchanged when size is zero, and the frame halts
\* with Success (RETURN) or Revert (REVERT).  The output range that execute
\* returns for Success/Revert lies inside memory.
C11_Return ==
    /\ [](Returned /\ result.status_code \in {EVMC_SUCCESS, EVMC_REVERT}
            => result.output_offset + result.output_size <= Len(memory))
    /\ [][Dispatch("op_return") =>
            /\ instr' = nullptr
            /\ IF ReturnCheckFails
               THEN /\ status' = EVMC_OUT_OF_GAS
                    /\ output_size' = 0 /\ output_size = 0
                    /\ output_offset' = output_offset
               ELSE /\ output_size' = Second
                    /\ output_offset' = IF Second # 0 THEN Top ELSE output_offset
                    /\ status' = IF Cur.op = "RETURN" THEN EVMC_SUCCESS ELSE EVMC_REVERT]_vars

\* REVERT of 3 bytes at offset 5 was returned by execute.
C11_Witness ==
    /\ Returned
    /\ result.status_code = EVMC_REVERT
    /\ result.output_size = 3
    /\ result.output_offset = 5

\* The handler of the table entry is installed and has not run yet / has run.
Installed == input.fn = "get_op_table" /\ output # NoOutput
NoEntry == input.gas_cost = undefined

\* C12: for every revision and opcode, an opcode without an entry in the
\* revision's cost schedule halts the frame with UndefinedInstruction and
\* INVALID halts it with InvalidInstruction; the two statuses are different
\* and neither case reports the other's.
C12_InvalidUndefined ==
    /\ EVMC_INVALID_INSTRUCTION # EVMC_UNDEFINED_INSTRUCTION
    /\ Installed /\ instr # nullptr /\ NoEntry => Cur.fn = "op_undefined"
    /\ Installed /\ instr # nullptr /\ input.op = "INVALID" => Cur.fn = "op_invalid"
    /\ Installed /\ instr = nullptr /\ NoEntry => status = EVMC_UNDEFINED_INSTRUCTION
    /\ Installed /\ instr = nullptr /\ input.op = "INVALID" => status = EVMC_INVALID_INSTRUCTION
    /\ Installed /\ Returned /\ NoEntry => result.status_code = EVMC_UNDEFINED_INSTRUCTION
    /\ Installed /\ Returned /\ input.op = "INVALID" => result.status_code = EVMC_INVALID_INSTRUCTION

\* REVERT, not in the schedule of revision 0, was run and reported.
C12_Witness ==
    /\ Installed
    /\ input.op = "REVERT" /\ input.rev = 0 /\ NoEntry
    /\ Returned
    /\ result.status_code = EVMC_UNDEFINED_INSTRUCTION

\* The number whose little-endian limbs are x.
RECURSIVE number_from(_, _, _)
number_from(x, i, base) == IF i > Len(x) THEN 0 ELSE x[i] + base * number_from(x, i + 1, base)
number(x) == number_from(x, 1, LimbBase)

\* The kernel was applied to x, y, m with m > 0.
Added == output # NoOutput /\ output.fn = "addmod384_64bitlimbs" /\ number(input.m) > 0
Subtracted == output # NoOutput /\ output.fn = "subtractmod384_64bitlimbs" /\ number(input.m) > 0

\* The operands are reduced: x < m and y < m.
Reduced == number(input.x) < number(input.m) /\ number(input.y) < number(input.m)

\* C13 as stated: for all operands x, y and every modulus m > 0 ADDMOD384
\* writes out = (x + y) mod m.
C13_AsStated ==
    Added => number(output.out) = (number(input.x) + number(input.y)) % number(input.m)

\* C13: for every modulus m > 0 ADDMOD384 writes the sum x + y, less m once
\* when the sum is at least m, in the width of the operands; for operands
\* x, y < m this is (x + y) mod m.
C13_AddMod ==
    Added =>
        LET sum == number(input.x) + number(input.y)
            m == number(input.m)
        IN  /\ number(output.out) = (IF sum >= m THEN sum - m ELSE sum) % Pow(LimbBase, NumLimbs)
            /\ Reduced => number(output.out) = sum % m

\* Reduced operands whose sum carries out of the top limb.
C13_Witness ==
    /\ Added
    /\ Reduced
    /\ number(input.x) + number(input.y) >= Pow(LimbBase, NumLimbs)
    /\ number(output.out) = number(input.x) + number(input.y) - number(input.m)

\* C14 as stated: for all operands x, y and every modulus m > 0 SUBMOD384
\* writes out = (x - y) mod m, the non-negative representative.
C14_AsStated ==
    Subtracted => number(output.out) = (number(input.x) - number(input.y)) % number(input.m)

\* C14: for every modulus m > 0 SUBMOD384 writes the difference x - y, plus m
\* once when x < y, in the width of the operands; for operands x, y < m this
\* is the non-negative (x - y) mod m.
C14_SubMod ==
    Subtracted =>
        LET x == number(input.x)
            y == number(input.y)
            m == number(input.m)
        IN  /\ number(output.out) = (IF x < y THEN x - y + m ELSE x - y) % Pow(LimbBase, NumLimbs)
            /\ Reduced => number(output.out) = (x - y) % m

\* Reduced operands whose difference borrows.
C14_Witness ==
    /\ Subtracted
    /\ Reduced
    /\ number(input.x) < number(input.y)
    /\ number(output.out) = number(input.x) - number(input.y) + number(input.m)

\* The four 32-bit fields of the low 128 bits of the word on top of the stack.
Decoded ==
    [mod_offset |-> Top % UINT32_MOD,
     y_offset |-> (Top \div UINT32_MOD) % UINT32_MOD,
     x_offset |-> (Top \div (UINT32_MOD * UINT32_MOD)) % UINT32_MOD,
     out_offset |-> (Top \div (UINT32_MOD * UINT32_MOD * UINT32_MOD)) % UINT32_MOD]

\* What the kernel of handler fn computes from the operands.
Result384(fn, x, y, m, inv) ==
    CASE fn = "op_addmod384" -> addmod384_64bitlimbs(x, y, m, 256)
      [] fn = "op_submod384" -> subtractmod384_64bitlimbs(x, y, m, 256)
      [] fn = "op_mulmodmont384" -> mulx_mont_384(x, y, m, inv, 256)

\* C15: each 384-bit handler pops exactly one word w and takes the modulus
\* offset from w mod 2^32, the y offset from (w div 2^32) mod 2^32, the x
\* offset from (w div 2^64) mod 2^32 and the output offset from
\* (w div 2^96) mod 2^32, whatever the upper 128 bits of w are: it reads its
\* operands at these offsets and writes the 48 bytes of the result at the
\* output offset, leaving the rest of memory as the bounds check left it.
C15_Offsets ==
    [][Is384 /\ stack.top >= 1 =>
        /\ stack'.top = stack.top - 1
        /\ stack'.items = SubSeq(stack.items, 1, stack.top - 1)
        /\ instr' # nullptr =>
            LET d == Decoded
                grown == check_memory(gas_left, memory,
                                      Max(Max(d.x_offset, d.y_offset),
                                          Max(d.out_offset, d.mod_offset)), Size384).memory
            IN  /\ Len(memory') = Len(grown)
                /\ \A i \in 1 .. Len(grown) :
                      (i - 1 < d.out_offset \/ i - 1 >= d.out_offset + 48) => memory'[i] = grown[i]
                /\ [i \in 1 .. 48 |-> memory'[d.out_offset + i]]
                     = Result384(Cur.fn,
                                 [i \in 1 .. 48 |-> grown[d.x_offset + i]],
                                 [i \in 1 .. 48 |-> grown[d.y_offset + i]],
                                 [i \in 1 .. 48 |-> grown[d.mod_offset + i]],
                                 byte_at(grown, (d.mod_offset + 48) % UINT32_MOD))]_vars

\* ADDMOD384 on the word that encodes (out=160, x=64, y=112, mod=0), with
\* x = 3, y = 5 and the modulus 6 in memory, has written 2 at offset 160.
C15_Witness ==
    /\ code = LayoutCode("ADDMOD384")
    /\ Returned
    /\ Len(memory) = 224
    /\ memory[1] = 6 /\ memory[65] = 3 /\ memory[113] = 5
    /\ memory[161] = 2
    /\ \A i \in 162 .. 208 : memory[i] = 0

\* C16: the table of every revision up to the maximum exists; the entry of an
\* opcode the revision's schedule does not define has the undefined handler
\* and gas cost 0; the entry of a defined opcode has a non-empty handler from
\* the implementation table and the schedule's cost, stack requirement and
\* stack change, and for ADDMOD384, SUBMOD384 and MULMODMONT384 that handler
\* is the opcode's own.
C16_OpTable ==
    /\ input.fn = "get_op_table" => input.rev < op_tables_size
    /\ Installed =>
        LET t == output.entry
        IN  IF NoEntry
            THEN t.fn = "op_undefined" /\ t.gas_cost = 0
            ELSE /\ t.fn # no_fn
                 /\ t.fn = instruction_implementations(input.op)
                 /\ t.gas_cost = input.gas_cost
                 /\ t.stack_req = stack_height_required(input.op)
                 /\ t.stack_change = stack_height_change(input.op)
                 /\ input.op = "ADDMOD384" => t.fn = "op_addmod384"
                 /\ input.op = "SUBMOD384" => t.fn = "op_submod384"
                 /\ input.op = "MULMODMONT384" => t.fn = "op_mulmodmont384"

\* C17: JUMPI removes exactly the two top items and leaves the rest of the
\* stack as it was, on every path.  With a zero condition it goes on to the
\* next instruction and does not fault; with a nonzero condition it does what
\* JUMP does with the destination: it moves to the instruction the lookup
\* maps it to, or halts with BadJumpDestination.
C17_JumpI ==
    [][Dispatch("op_jumpi") /\ stack.top >= 2 =>
        /\ stack'.top = stack.top - 2
        /\ stack'.items = SubSeq(stack.items, 1, stack.top - 2)
        /\ IF Second = 0
           THEN instr' = instr + 1 /\ status' = status
           ELSE IF NotJumpdest(Top)
           THEN instr' = nullptr /\ status' = EVMC_BAD_JUMP_DESTINATION
           ELSE instr' = find_jumpdest(analysis, Top) + 1 /\ status' = status]_vars

\* PUSH1 5; PUSH1 0; JUMPI; JUMPDEST; GAS: the JUMPI with the zero condition
\* has removed both items and the frame has gone on to push the gas.
C17_Witness ==
    /\ code = <<Push1(0), Push1(5), Item("JUMPI"), Item("JUMPDEST"), Item("GAS")>>
    /\ Returned
    /\ result.status_code = EVMC_SUCCESS
    /\ stack.top = 1

\* C18: the frame starts on a begin-block; the instruction a JUMP or a taken
\* JUMPI moves to, and the one after a JUMPI that is not taken, is a
\* begin-block; an instruction that is not a begin-block is reached only by
\* going on from the instruction before it, which is not a JUMP or JUMPI, so
\* its block's begin-block has run since the last transfer of control.
C18_BlockEntry ==
    /\ [](instr = 1 => Cur.fn = "opx_beginblock")
    /\ [][(Dispatch("op_jump") \/ Dispatch("op_jumpi")) /\ instr' # nullptr
            => analysis.instrs[instr'].fn = "opx_beginblock"]_vars
    /\ [][instr' # nullptr /\ instr' # instr /\ analysis.instrs[instr'].fn # "opx_beginblock"
            => /\ instr' = instr + 1
               /\ Cur.fn \notin {"op_jump", "op_jumpi"}]_vars

\* PUSH1 1; PUSH1 5; JUMPI; JUMPDEST; GAS: the JUMPI was taken and the cursor
\* is on the begin-block of the JUMPDEST.
C18_Witness ==
    /\ code = <<Push1(1), Push1(5), Item("JUMPI"), Item("JUMPDEST"), Item("GAS")>>
    /\ instr # nullptr
    /\ instr > 1
    /\ Cur.fn = "opx_beginblock"
    /\ stack.top = 0

\* The bytes the 384-bit handler under the cursor reads or writes for the
\* word on top of the stack: 48 bytes at each of the four offsets, and for
\* op_mulmodmont384 the 8 bytes of the inverse at the index it computes.
Accessed384 ==
    LET o == offsets(Top)
    IN  UNION {f .. f + 47 : f \in {o.out_offset, o.x_offset, o.y_offset, o.mod_offset}}
        \cup (IF Cur.fn = "op_mulmodmont384" THEN inv_index(o) .. inv_index(o) + 7 ELSE {})

\* C19: when the bounds check of a 384-bit handler succeeds and the handler
\* goes on, every byte it reads or writes lies inside the memory, also for
\* offsets so high that modulus offset + 48 wraps around.
C19_InsideMemory ==
    [][Is384 /\ stack.top >= 1 /\ instr' # nullptr
          => \A i \in Accessed384 : i >= 0 /\ i < Len(memory')]_vars

\* MULMODMONT384 with the modulus at UINT32_MOD - 40, where the index of the
\* inverse wraps, has passed its bounds check and run.
C19_Witness ==
    /\ code = <<Push16(Word384(0, 0, 0, UINT32_MOD - 40)), Item("MULMODMONT384")>>
    /\ Returned
    /\ result.status_code = EVMC_SUCCESS
    /\ Len(memory) >= UINT32_MOD - 40 + 56
    /\ metered = gas_left

\* C20: current_block_cost changes only when a begin-block passes its three
\* checks, to the block's gas_cost, and a failing begin-block leaves it as it
\* was; whenever an instruction that is not a begin-block is under the cursor,
\* current_block_cost is the gas_cost of the begin-block of its block, so the
\* gas_left_correction of SSTORE, GAS, CALL and CREATE is not negative.
C20_BlockCost ==
    /\ [][current_block_cost' # current_block_cost
            => /\ Dispatch("opx_beginblock")
               /\ beginblock(Cur.block, gas_left, stack).halt = "none"
               /\ current_block_cost' = Cur.block.gas_cost]_vars
    /\ [][Dispatch("opx_beginblock") /\ instr' = nullptr
            => current_block_cost' = current_block_cost]_vars
    /\ [](instr # nullptr /\ Cur.fn # "opx_beginblock" =>
            LET begin == CHOOSE j \in 1 .. instr :
                            /\ analysis.instrs[j].fn = "opx_beginblock"
                            /\ \A k \in (j + 1) .. instr :
                                  analysis.instrs[k].fn # "opx_beginblock"
            IN  /\ current_block_cost = analysis.instrs[begin].block.gas_cost
                /\ Cur.fn \in {"op_sstore", "op_gas", "op_call", "op_create"}
                      => current_block_cost - Cur.number >= 0)

\* PUSH1 0; PUSH1 1; SSTORE; GAS; PUSH1 0; JUMPI: GAS is under the cursor with
\* the cost of its block in current_block_cost and a positive correction.
C20_Witness ==
    /\ code = <<Push1(0), Push1(1), Item("SSTORE"), Item("GAS"), Push1(0), Item("JUMPI")>>
    /\ instr # nullptr
    /\ Cur.fn = "op_gas"
    /\ current_block_cost = analysis.instrs[1].block.gas_cost
    /\ current_block_cost - Cur.number > 0

====
